---- MODULE Spec2Model ----
(***************************************************************************)
(* Model of SimpleCmd: the command-line AI agent's safety classifier        *)
(* (command_executor.py, config.py), the translator client (ai_agent.py),   *)
(* the execution engine (CommandExecutor.execute_command) and the session   *)
(* loop (main.py).  Text is modelled as sequences of one-character strings. *)
(***************************************************************************)
EXTENDS Integers, Sequences, FiniteSets, TLC

(* ------------------------------ bounds --------------------------------- *)
\* number of execute cycles explored in one session
MaxCycles == 2
\* number of processes the host shell may have spawned and still running
MaxChildren == 1
\* number of tokens concatenated to form a classifier input
MaxTokens == 3

(* --------------------------- program constants ------------------------- *)
COMMAND_TIMEOUT == 30

SENSITIVE_COMMAND_KEYWORDS ==
    { <<"r", "m">>,
      <<"d", "e", "l", "e", "t", "e">>,
      <<"r", "e", "m", "o", "v", "e">>,
      <<"m", "v">>,
      <<"m", "o", "v", "e">>,
      <<"c", "p">>,
      <<"c", "o", "p", "y">>,
      <<"c", "h", "m", "o", "d">>,
      <<"c", "h", "o", "w", "n">>,
      <<"s", "u", "d", "o">>,
      <<"s", "u">>,
      <<"d", "d">>,
      <<"f", "o", "r", "m", "a", "t">>,
      <<"m", "k", "f", "s">>,
      <<"s", "h", "u", "t", "d", "o", "w", "n">>,
      <<"r", "e", "b", "o", "o", "t">>,
      <<"h", "a", "l", "t">>,
      <<"k", "i", "l", "l">>,
      <<"k", "i", "l", "l", "a", "l", "l">>,
      <<"c", "u", "r", "l">>,
      <<"w", "g", "e", "t">>,
      <<"g", "i", "t", " ", "p", "u", "s", "h", " ", "-", "-", "f", "o", "r", "c", "e">>,
      <<"d", "r", "o", "p">>,
      <<"t", "r", "u", "n", "c", "a", "t", "e">>,
      <<">">>,
      <<">", ">">>,
      <<"u", "n", "i", "n", "s", "t", "a", "l", "l">>,
      <<"p", "u", "r", "g", "e">> }

\* regular-expression elements used by the configured patterns
Lit(c) == [t |-> "lit", c |-> c]
WsPlus == [t |-> "ws+", c |-> ""]
AnyStar == [t |-> "any*", c |-> ""]

\* DANGEROUS_PATTERNS whose first pattern lost its leading rm\s+ (-rf alone)
DANGEROUS_PATTERNS_AnyRf ==
    << <<Lit("-"), Lit("r"), Lit("f")>>,
       <<Lit("r"), Lit("m"), WsPlus, AnyStar, Lit("*")>>,
       <<Lit(">"), WsPlus, Lit("/")>>,
       <<Lit("s"), Lit("u"), Lit("d"), Lit("o"), WsPlus, Lit("r"), Lit("m")>> >>

\*  rm\s+-rf ,  rm\s+.*\* ,  >\s+/ ,  sudo\s+rm
DANGEROUS_PATTERNS ==
    << <<Lit("r"), Lit("m"), WsPlus, Lit("-"), Lit("r"), Lit("f")>>,
       <<Lit("r"), Lit("m"), WsPlus, AnyStar, Lit("*")>>,
       <<Lit(">"), WsPlus, Lit("/")>>,
       <<Lit("s"), Lit("u"), Lit("d"), Lit("o"), WsPlus, Lit("r"), Lit("m")>> >>

(* ------------------------------ text ----------------------------------- *)
UpperLetters ==
    <<"A", "B", "C", "D", "E", "F", "G", "H", "I", "J", "K", "L", "M",
      "N", "O", "P", "Q", "R", "S", "T", "U", "V", "W", "X", "Y", "Z">>
LowerLetters ==
    <<"a", "b", "c", "d", "e", "f", "g", "h", "i", "j", "k", "l", "m",
      "n", "o", "p", "q", "r", "s", "t", "u", "v", "w", "x", "y", "z">>

\* str.lower() on one character
LowerChar(c) ==
    IF \E i \in 1..26 : UpperLetters[i] = c
    THEN LowerLetters[CHOOSE i \in 1..26 : UpperLetters[i] = c]
    ELSE c

\* str.lower()
Lower(s) == [i \in 1..Len(s) |-> LowerChar(s[i])]

\* str.isspace() on one character; \s in a pattern
IsSpace(c) == c \in {" ", "\t", "\n", "\r"}

\* str.strip(): drop leading and trailing whitespace
Strip(s) ==
    LET keep == {i \in 1..Len(s) : ~IsSpace(s[i])}
    IN  IF keep = {} THEN <<>>
        ELSE LET lo == CHOOSE i \in keep : \A j \in keep : i <= j
                 hi == CHOOSE i \in keep : \A j \in keep : j <= i
             IN  SubSeq(s, lo, hi)

\* does p occur in s at position i
OccursAt(s, p, i) ==
    /\ i >= 1
    /\ i + Len(p) - 1 <= Len(s)
    /\ \A k \in 1..Len(p) : s[i + k - 1] = p[k]

\* the "in" operator on strings: p in s
Contains(s, p) == \E i \in 1..(Len(s) + 1) : OccursAt(s, p, i)

\* str.startswith
StartsWith(s, p) == OccursAt(s, p, 1)

\* str.replace(old, ""): every non-overlapping occurrence, left to right
RECURSIVE RemoveAll(_, _)
RemoveAll(s, old) ==
    IF Len(s) = 0 THEN <<>>
    ELSE IF OccursAt(s, old, 1)
         THEN RemoveAll(SubSeq(s, Len(old) + 1, Len(s)), old)
         ELSE <<s[1]>> \o RemoveAll(Tail(s), old)

\* re.match of elements k.. of pattern p against s at position i
RECURSIVE MatchHere(_, _, _, _)
MatchHere(p, k, s, i) ==
    IF k > Len(p) THEN TRUE
    ELSE IF p[k].t = "lit"
         THEN /\ i <= Len(s)
              /\ s[i] = p[k].c
              /\ MatchHere(p, k + 1, s, i + 1)
    ELSE IF p[k].t = "ws+"
         THEN \E j \in (i + 1)..(Len(s) + 1) :
                 /\ \A m \in i..(j - 1) : IsSpace(s[m])
                 /\ MatchHere(p, k + 1, s, j)
    ELSE \E j \in i..(Len(s) + 1) :
                 /\ \A m \in i..(j - 1) : s[m] # "\n"
                 /\ MatchHere(p, k + 1, s, j)

\* re.search(pattern, s)
Search(p, s) == \E i \in 1..(Len(s) + 1) : MatchHere(p, 1, s, i)

(* --------------------------- classifier -------------------------------- *)
\* is_sensitive_command without the lower-casing
is_sensitive_command_NoLower(command) ==
    LET command_lower == Strip(command)
    IN  \/ \E keyword \in SENSITIVE_COMMAND_KEYWORDS : Contains(command_lower, keyword)
        \/ \E n \in 1..Len(DANGEROUS_PATTERNS) : Search(DANGEROUS_PATTERNS[n], command_lower)

\* CommandExecutor.is_sensitive_command
is_sensitive_command(command) ==
    LET command_lower == Strip(Lower(command))
    IN  \/ \E keyword \in SENSITIVE_COMMAND_KEYWORDS : Contains(command_lower, keyword)
        \/ \E n \in 1..Len(DANGEROUS_PATTERNS) : Search(DANGEROUS_PATTERNS[n], command_lower)

\* pattern lists that are malformed: one with an empty pattern added, one with
\* a pattern re cannot compile
MalformedPolicies == {"empty_pattern", "invalid_pattern"}

\* is_sensitive_command under a pattern list: the keywords and the configured
\* patterns are tried first, then the added pattern; re.search with an empty
\* pattern matches any text, with an invalid one it raises re.error
classify(pol, command) ==
    IF is_sensitive_command(command) THEN "SENSITIVE"
    ELSE IF pol = "empty_pattern"
         THEN (IF Search(<<>>, Strip(Lower(command))) THEN "SENSITIVE" ELSE "SAFE")
    ELSE IF pol = "invalid_pattern" THEN "ERROR"
    ELSE "SAFE"

(* ------------------------- translator texts ---------------------------- *)
Marker == <<"N", "E", "E", "D", "S", "_", "A", "P", "P", "R", "O", "V", "A", "L", ":">>
QuestionTag == <<"Q", "U", "E", "S", "T", "I", "O", "N", ":">>
ErrorTag == <<"E", "r", "r", "o", "r", ":">>
UnknownText == <<"U", "N", "K", "N", "O", "W", "N">>

CmdLs == <<"l", "s">>
CmdRm == <<"r", "m", " ", "x">>

\* the "Error: ..." strings built by chat and _parse_response
ErrorText == ErrorTag \o <<" ", "e">>
\* json.dumps(data, indent=2) of a body in none of the recognised shapes ({})
JsonDump == <<"{", "}">>

\* contents the translation service may put in its reply
Replies ==
    { CmdLs,
      CmdRm,
      Marker \o <<" ">> \o CmdRm,
      Marker \o <<" ">> \o CmdLs,
      QuestionTag \o <<" ", "h", "i">>,
      UnknownText,
      Marker \o <<" ">> \o CmdLs \o <<" ">> \o Marker,
      ErrorText,
      Marker \o <<" ">> \o QuestionTag \o <<" ", "h", "i">>,
      Marker \o <<" ">> \o UnknownText,
      Marker \o ErrorText }

\* how one request to the translation service ends
ChatOutcomes ==
    {"ok", "unrecognised", "http_error", "json_error", "processing_error",
     "timeout", "connection", "other_exception"}

\* AIAgent._parse_response: the text it returns for a response
parse_response(kind, text) ==
    IF kind = "ok" THEN Strip(text)
    ELSE IF kind = "unrecognised" THEN JsonDump
    ELSE ErrorText

\* chat that sets the hint but leaves the marker in the reply
chatKeepsMarker(configured, conv, kind, text) ==
    IF ~configured
    THEN [response |-> ErrorText, needs_approval |-> FALSE, history |-> conv]
    ELSE LET conv1 == Append(conv, "user")
         IN  IF kind \in {"timeout", "connection", "other_exception"}
             THEN [response |-> ErrorText, needs_approval |-> FALSE, history |-> conv1]
             ELSE LET raw == parse_response(kind, text)
                      needs == StartsWith(raw, Marker)
                  IN  [response |-> raw, needs_approval |-> needs,
                       history |-> Append(conv1, "assistant")]

\* AIAgent.chat: (ai_response, needs_approval) and the new conversation history
chat(configured, conv, kind, text) ==
    IF ~configured
    THEN [response |-> ErrorText, needs_approval |-> FALSE, history |-> conv]
    ELSE LET conv1 == Append(conv, "user")
         IN  IF kind \in {"timeout", "connection", "other_exception"}
             THEN [response |-> ErrorText, needs_approval |-> FALSE, history |-> conv1]
             ELSE LET raw == parse_response(kind, text)
                      needs == StartsWith(raw, Marker)
                      resp == IF needs THEN Strip(RemoveAll(raw, Marker)) ELSE raw
                  IN  [response |-> resp, needs_approval |-> needs,
                       history |-> Append(conv1, "assistant")]

\* nothing was asked of the translator in this cycle
NoUpstream == [kind |-> "none", text |-> <<>>]

\* AIAgent.chat 148-180: how the request ended and the text _parse_response
\* returned, if it was reached
Upstream(configured, kind, text) ==
    IF ~configured THEN [kind |-> "not_configured", text |-> <<>>]
    ELSE IF kind \in {"timeout", "connection", "other_exception"}
    THEN [kind |-> kind, text |-> <<>>]
    ELSE [kind |-> kind, text |-> parse_response(kind, text)]

(* ------------------------------ state ---------------------------------- *)
VARIABLES
    entry,                 \* who drives the executor: "main" (main.py), "api" (direct calls),
                           \* "classify" (calls of is_sensitive_command only)
    pc,                    \* position of the single thread
    api_configured,        \* AIAgent.api_configured
    conversation_history,  \* AIAgent.conversation_history (roles)
    command_history,       \* CommandExecutor.command_history
    view,                  \* last list shown by the 'history' input
    command,               \* ai_response / the command argument of execute_command
    needs_approval,        \* the hint returned by chat
    auto_approve,          \* the auto_approve argument of execute_command
    decision,              \* approval decision of the current cycle
    events,                \* what happened in the current cycle, in order
    hist0,                 \* command_history when the current cycle began
    approved,              \* commands approved so far, in order
    result,                \* value returned by the last execute_command
    raised,                \* exception that left the last execute_command
    shell,                 \* the host shell process of the current command
    children,              \* processes spawned by that shell and still running
    cycles,                \* cycles started so far
    cleared,               \* the user typed clear and no cycle began since
    upstream,              \* how the last request to the translator ended and the text it gave
    run_timeout,           \* the timeout argument given to subprocess.run for the current command
    policy,                \* the pattern list config.py supplies: "default" or a malformed one
    completed,             \* the CompletedProcess subprocess.run returned for the current command
    label                  \* last value returned by is_sensitive_command

vars == <<entry, completed, policy, run_timeout, upstream, cleared, pc, api_configured,
          conversation_history, command_history, view, command, needs_approval,
          auto_approve, decision, events, hist0, approved, result, raised, shell,
          children, cycles, label>>

NoCompleted == [returncode |-> -1, stdout |-> "-", stderr |-> "-"]
NoResult == [succeeded |-> FALSE, stdout |-> "-", stderr |-> "-", limit |-> 0]
Result(ok, out, err, lim) == [succeeded |-> ok, stdout |-> out, stderr |-> err, limit |-> lim]

\* state common to every start
InitCommon ==
    /\ conversation_history = <<>>
    /\ command_history = <<>>
    /\ view = <<>>
    /\ needs_approval = FALSE
    /\ auto_approve = FALSE
    /\ decision = "NONE"
    /\ events = <<>>
    /\ hist0 = <<>>
    /\ approved = <<>>
    /\ result = NoResult
    /\ raised = "none"
    /\ shell = "none"
    /\ children = 0
    /\ cycles = 0
    /\ label = "none"
    /\ completed = NoCompleted
    /\ run_timeout = 0
    /\ upstream = NoUpstream
    /\ cleared = FALSE

\* main(): AIAgent() and CommandExecutor() constructed, about to read input;
\* or a CommandExecutor() constructed by a caller of the class
Init ==
    /\ entry \in {"main", "api"}
    /\ pc = IF entry = "main" THEN "input" ELSE "api_idle"
    /\ api_configured \in BOOLEAN
    /\ command = <<>>
    /\ policy = "default"
    /\ InitCommon

\* the same start with config.py holding a malformed pattern list
InitPolicy ==
    /\ entry \in {"main", "api"}
    /\ pc = IF entry = "main" THEN "input" ELSE "api_idle"
    /\ api_configured \in BOOLEAN
    /\ command = <<>>
    /\ policy \in MalformedPolicies
    /\ InitCommon

\* where control goes when execute_command returns
AfterReturn == IF entry = "main" THEN "input" ELSE "api_idle"
\* where control goes when KeyboardInterrupt or EOFError leaves execute_command:
\* main() breaks out of its loop (main.py 202-207)
AfterRaise == IF entry = "main" THEN "done" ELSE "api_idle"

\* a new cycle begins: the outcome of the previous one is forgotten
BeginCycle ==
    /\ hist0' = command_history
    /\ result' = NoResult
    /\ raised' = "none"
    /\ shell' = "none"
    /\ children' = 0
    /\ cycles' = cycles + 1
    /\ cleared' = FALSE
    /\ completed' = NoCompleted
    /\ run_timeout' = 0

(* ---------------------------- main.py ---------------------------------- *)
\* inputs main() handles itself; "" is also what get_user_input returns on
\* KeyboardInterrupt or EOFError (main.py 42-43)
SpecialInputs == {"", "exit", "help", "history", "clear"}

\* CommandExecutor.get_command_history: a copy of the list
get_command_history == command_history

\* MainSpecial whose clear also empties the executor's command history
MainSpecialClearsCommands(user_input) ==
    /\ entry = "main"
    /\ pc = "input"
    /\ pc' = IF user_input = "exit" THEN "done" ELSE "input"
    /\ view' = IF user_input = "history" THEN get_command_history ELSE view
    /\ conversation_history' = IF user_input = "clear" THEN <<>> ELSE conversation_history
    /\ command_history' = IF user_input = "clear" THEN <<>> ELSE command_history
    /\ cleared' = IF user_input = "clear" THEN TRUE ELSE cleared
    /\ UNCHANGED <<entry, completed, policy, run_timeout, upstream, api_configured,
                   command, needs_approval, auto_approve, decision, events, hist0,
                   approved, result, raised, shell, children, cycles, label>>

\* main.py 134-161: one pass of the loop on a special input
MainSpecial(user_input) ==
    /\ entry = "main"
    /\ pc = "input"
    /\ pc' = IF user_input = "exit" THEN "done" ELSE "input"
    /\ view' = IF user_input = "history" THEN get_command_history ELSE view
    /\ conversation_history' = IF user_input = "clear" THEN <<>> ELSE conversation_history
    /\ cleared' = IF user_input = "clear" THEN TRUE ELSE cleared
    /\ UNCHANGED <<entry, completed, policy, run_timeout, upstream, api_configured,
                   command_history, command, needs_approval, auto_approve, decision,
                   events, hist0, approved, result, raised, shell, children, cycles,
                   label>>

\* main.py 134-164: natural-language input, about to call ai_agent.chat
MainRequest ==
    /\ upstream' = NoUpstream
    /\ entry = "main"
    /\ pc = "input"
    /\ cycles < MaxCycles
    /\ pc' = "chat"
    /\ BeginCycle
    /\ command' = <<>>
    /\ needs_approval' = FALSE
    /\ auto_approve' = FALSE
    /\ decision' = "NONE"
    /\ events' = <<>>
    /\ UNCHANGED <<entry, policy, api_configured, conversation_history, command_history,
                   view, approved, label>>

\* main.py 168-181: replies that are not commands
NotACommand(ai_response) ==
    \/ StartsWith(ai_response, QuestionTag)
    \/ ai_response = UnknownText
    \/ StartsWith(ai_response, ErrorTag)

\* MainChat that sends a hinted command to the executor without asking
MainChatNoGate(kind, text) ==
    /\ upstream' = Upstream(api_configured, kind, text)
    /\ entry = "main"
    /\ pc = "chat"
    /\ LET r == chat(api_configured, conversation_history, kind, text)
       IN  /\ conversation_history' = r.history
           /\ command' = r.response
           /\ needs_approval' = r.needs_approval
           /\ IF NotACommand(r.response)
              THEN /\ pc' = "input"
                   /\ UNCHANGED <<decision, events, auto_approve, approved>>
              ELSE IF r.needs_approval
              THEN /\ pc' = "exec_enter"
                   /\ auto_approve' = TRUE
                   /\ UNCHANGED <<decision, events, approved>>
              ELSE /\ pc' = "exec_enter"
                   /\ decision' = "AUTO_APPROVED"
                   /\ events' = <<"decide_AUTO_APPROVED">>
                   /\ auto_approve' = TRUE
                   /\ approved' = Append(approved, r.response)
    /\ UNCHANGED <<entry, completed, policy, run_timeout, cleared, api_configured,
                   command_history, view, hist0, result, raised, shell, children, cycles,
                   label>>

\* main.py 165-200: chat, then dispatch on the reply
MainChat(kind, text) ==
    /\ upstream' = Upstream(api_configured, kind, text)
    /\ entry = "main"
    /\ pc = "chat"
    /\ LET r == chat(api_configured, conversation_history, kind, text)
       IN  /\ conversation_history' = r.history
           /\ command' = r.response
           /\ needs_approval' = r.needs_approval
           /\ IF NotACommand(r.response)
              THEN /\ pc' = "input"
                   /\ UNCHANGED <<decision, events, auto_approve, approved>>
              ELSE IF r.needs_approval
              THEN /\ pc' = "hinted_prompt"
                   /\ events' = <<"warning", "prompt_hinted">>
                   /\ UNCHANGED <<decision, auto_approve, approved>>
              ELSE /\ pc' = "exec_enter"
                   /\ decision' = "AUTO_APPROVED"
                   /\ events' = <<"decide_AUTO_APPROVED">>
                   /\ auto_approve' = TRUE
                   /\ approved' = Append(approved, r.response)
    /\ UNCHANGED <<entry, completed, policy, run_timeout, cleared, api_configured,
                   command_history, view, hist0, result, raised, shell, children, cycles,
                   label>>

\* main.py 165, 202-204: KeyboardInterrupt while chat waits for the service is
\* not an Exception, chat does not catch it and main() leaves its loop
MainChatInterrupt ==
    /\ entry = "main"
    /\ pc = "chat"
    /\ api_configured
    /\ conversation_history' = Append(conversation_history, "user")
    /\ pc' = "done"
    /\ UNCHANGED <<entry, completed, policy, run_timeout, upstream, cleared,
                   api_configured, command_history, view, command, needs_approval,
                   auto_approve, decision, events, hist0, approved, result, raised,
                   shell, children, cycles, label>>

\* what can happen at the (y/n) prompt of get_confirmation
HintedAnswers == {"y", "n", "", "KeyboardInterrupt", "EOFError"}

\* the event recorded for what happened at a prompt
AnswerEvent(answer) ==
    IF answer = "y" THEN "answer_yes"
    ELSE IF answer = "n" THEN "answer_no"
    ELSE IF answer = "" THEN "answer_empty"
    ELSE "answer_interrupted"

\* main.py 46-62: get_confirmation
get_confirmation(answer) == answer = "y"

\* MainConfirm calling execute_command whatever the answer
MainConfirmAlways(answer) ==
    /\ entry = "main"
    /\ pc = "hinted_prompt"
    /\ IF get_confirmation(answer)
       THEN /\ decision' = "USER_APPROVED"
            /\ events' = events \o <<AnswerEvent(answer), "decide_USER_APPROVED">>
            /\ approved' = Append(approved, command)
       ELSE /\ decision' = "USER_DENIED"
            /\ events' = events \o <<AnswerEvent(answer), "decide_USER_DENIED">>
            /\ UNCHANGED approved
    /\ pc' = "exec_enter"
    /\ auto_approve' = TRUE
    /\ UNCHANGED <<entry, completed, policy, run_timeout, upstream, cleared,
                   api_configured, conversation_history, command_history, view, command,
                   needs_approval, hist0, result, raised, shell, children, cycles, label>>

\* MainConfirm that lets execute_command run its local check after a yes
MainConfirmLocalCheck(answer) ==
    /\ entry = "main"
    /\ pc = "hinted_prompt"
    /\ IF get_confirmation(answer)
       THEN /\ decision' = "USER_APPROVED"
            /\ events' = events \o <<AnswerEvent(answer), "decide_USER_APPROVED">>
            /\ approved' = Append(approved, command)
            /\ pc' = "exec_enter"
            /\ auto_approve' = FALSE
       ELSE /\ decision' = "USER_DENIED"
            /\ events' = events \o <<AnswerEvent(answer), "decide_USER_DENIED">>
            /\ pc' = "input"
            /\ UNCHANGED <<approved, auto_approve>>
    /\ UNCHANGED <<entry, completed, policy, run_timeout, upstream, cleared,
                   api_configured, conversation_history, command_history, view, command,
                   needs_approval, hist0, result, raised, shell, children, cycles, label>>

\* main.py 187-196: the hinted prompt and what follows it
MainConfirm(answer) ==
    /\ entry = "main"
    /\ pc = "hinted_prompt"
    /\ IF get_confirmation(answer)
       THEN /\ decision' = "USER_APPROVED"
            /\ events' = events \o <<AnswerEvent(answer), "decide_USER_APPROVED">>
            /\ approved' = Append(approved, command)
            /\ pc' = "exec_enter"
            /\ auto_approve' = TRUE
       ELSE /\ decision' = "USER_DENIED"
            /\ events' = events \o <<AnswerEvent(answer), "decide_USER_DENIED">>
            /\ pc' = "input"
            /\ UNCHANGED <<approved, auto_approve>>
    /\ UNCHANGED <<entry, completed, policy, run_timeout, upstream, cleared,
                   api_configured, conversation_history, command_history, view, command,
                   needs_approval, hist0, result, raised, shell, children, cycles, label>>

(* ----------------------- command_executor.py --------------------------- *)
\* commands a direct caller of execute_command passes
ApiCommands == {CmdLs, CmdRm}

\* a caller other than main() calls executor.execute_command(cmd, auto);
\* with auto_approve=True the caller has already decided
ApiCall(cmd, auto, d) ==
    /\ upstream' = NoUpstream
    /\ entry = "api"
    /\ pc = "api_idle"
    /\ cycles < MaxCycles
    /\ pc' = "exec_enter"
    /\ BeginCycle
    /\ command' = cmd
    /\ auto_approve' = auto
    /\ needs_approval' = FALSE
    /\ IF auto
       THEN /\ decision' = d
            /\ events' = <<IF d = "AUTO_APPROVED" THEN "decide_AUTO_APPROVED"
                           ELSE "decide_USER_APPROVED">>
            /\ approved' = Append(approved, cmd)
       ELSE /\ decision' = "NONE"
            /\ events' = <<>>
            /\ UNCHANGED approved
    /\ UNCHANGED <<entry, policy, api_configured, conversation_history, command_history,
                   view, label>>

Label(b) == IF b THEN "SENSITIVE" ELSE "SAFE"

\* ExecEnter that asks for every command it checks locally
ExecEnterAlwaysAsk ==
    /\ pc = "exec_enter"
    /\ IF auto_approve
       THEN /\ events' = Append(events, "panel_normal")
            /\ pc' = "exec_record"
            /\ UNCHANGED <<decision, approved, label>>
       ELSE LET is_sensitive == is_sensitive_command(command)
            IN  /\ label' = Label(is_sensitive)
                /\ events' = events \o <<"classify", "panel_sensitive", "prompt_local">>
                /\ pc' = "exec_confirm"
                /\ UNCHANGED <<decision, approved>>
    /\ UNCHANGED <<entry, completed, policy, run_timeout, upstream, cleared,
                   api_configured, conversation_history, command_history, view, command,
                   needs_approval, auto_approve, hist0, result, raised, shell, children,
                   cycles>>

\* ExecEnter that asks before it shows the panel
ExecEnterAskFirst ==
    /\ pc = "exec_enter"
    /\ IF auto_approve
       THEN /\ events' = Append(events, "panel_normal")
            /\ pc' = "exec_record"
            /\ UNCHANGED <<decision, approved, label, raised>>
       ELSE LET lab == classify(policy, command)
            IN  IF lab = "ERROR"
                THEN /\ raised' = "re.error"
                     /\ events' = events \o <<"classify", "raise">>
                     /\ pc' = AfterReturn
                     /\ UNCHANGED <<decision, approved, label>>
                ELSE /\ label' = lab
                     /\ UNCHANGED raised
                     /\ IF lab = "SENSITIVE"
                        THEN /\ events' = events \o <<"classify", "prompt_local", "panel_sensitive">>
                             /\ pc' = "exec_confirm"
                             /\ UNCHANGED <<decision, approved>>
                        ELSE /\ events' = events \o <<"classify", "panel_normal",
                                                      "decide_AUTO_APPROVED">>
                             /\ decision' = "AUTO_APPROVED"
                             /\ approved' = Append(approved, command)
                             /\ pc' = "exec_record"
    /\ UNCHANGED <<entry, completed, policy, run_timeout, upstream, cleared,
                   api_configured, conversation_history, command_history, view, command,
                   needs_approval, auto_approve, hist0, result, shell, children, cycles>>

\* command_executor.py 82-91: display, and the local check unless auto_approve
ExecEnter ==
    /\ pc = "exec_enter"
    /\ IF auto_approve
       THEN /\ events' = Append(events, "panel_normal")
            /\ pc' = "exec_record"
            /\ UNCHANGED <<decision, approved, label, raised>>
       ELSE LET lab == classify(policy, command)
            IN  IF lab = "ERROR"
                THEN /\ raised' = "re.error"
                     /\ events' = events \o <<"classify", "raise">>
                     /\ pc' = AfterReturn
                     /\ UNCHANGED <<decision, approved, label>>
                ELSE /\ label' = lab
                     /\ UNCHANGED raised
                     /\ IF lab = "SENSITIVE"
                        THEN /\ events' = events \o <<"classify", "panel_sensitive", "prompt_local">>
                             /\ pc' = "exec_confirm"
                             /\ UNCHANGED <<decision, approved>>
                        ELSE /\ events' = events \o <<"classify", "panel_normal",
                                                      "decide_AUTO_APPROVED">>
                             /\ decision' = "AUTO_APPROVED"
                             /\ approved' = Append(approved, command)
                             /\ pc' = "exec_record"
    /\ UNCHANGED <<entry, completed, policy, run_timeout, upstream, cleared,
                   api_configured, conversation_history, command_history, view, command,
                   needs_approval, auto_approve, hist0, result, shell, children, cycles>>

\* answers rich's Confirm.ask(default=False) returns on
LocalAnswers == {"y", "n", ""}

\* command_executor.py 93-99: the answer at the local prompt
ExecConfirm(answer) ==
    /\ pc = "exec_confirm"
    /\ IF answer = "y"
       THEN /\ decision' = "USER_APPROVED"
            /\ events' = events \o <<AnswerEvent(answer), "decide_USER_APPROVED">>
            /\ approved' = Append(approved, command)
            /\ pc' = "exec_record"
            /\ UNCHANGED result
       ELSE /\ decision' = "USER_DENIED"
            /\ events' = events \o <<AnswerEvent(answer), "decide_USER_DENIED">>
            /\ result' = Result(FALSE, "", "User cancelled command execution", 0)
            /\ pc' = AfterReturn
            /\ UNCHANGED approved
    /\ UNCHANGED <<entry, completed, policy, run_timeout, upstream, cleared,
                   api_configured, conversation_history, command_history, view, command,
                   needs_approval, auto_approve, hist0, raised, shell, children, cycles,
                   label>>

\* command_executor.py 93-96: Confirm.ask is outside any try, so KeyboardInterrupt
\* or EOFError raised while it waits leaves execute_command
ExecConfirmAbort(exc) ==
    /\ pc = "exec_confirm"
    /\ raised' = exc
    /\ events' = events \o <<"answer_interrupted", "raise">>
    /\ pc' = AfterRaise
    /\ UNCHANGED <<entry, completed, policy, run_timeout, upstream, cleared,
                   api_configured, conversation_history, command_history, view, command,
                   needs_approval, auto_approve, decision, hist0, approved, result,
                   shell, children, cycles, label>>

\* ExecRecord that forgets to record
ExecRecordSkip ==
    /\ pc = "exec_record"
    /\ pc' = "exec_launch"
    /\ UNCHANGED <<entry, completed, policy, run_timeout, upstream, cleared,
                   api_configured, conversation_history, command_history, view, command,
                   needs_approval, auto_approve, decision, events, hist0, approved,
                   result, raised, shell, children, cycles, label>>

\* ExecRecord that puts the newest command first
ExecRecordFront ==
    /\ pc = "exec_record"
    /\ command_history' = <<command>> \o command_history
    /\ pc' = "exec_launch"
    /\ UNCHANGED <<entry, completed, policy, run_timeout, upstream, cleared,
                   api_configured, conversation_history, view, command, needs_approval,
                   auto_approve, decision, events, hist0, approved, result, raised,
                   shell, children, cycles, label>>

\* command_executor.py 101-102: self.command_history.append(command)
ExecRecord ==
    /\ pc = "exec_record"
    /\ command_history' = Append(command_history, command)
    /\ pc' = "exec_launch"
    /\ UNCHANGED <<entry, completed, policy, run_timeout, upstream, cleared,
                   api_configured, conversation_history, view, command, needs_approval,
                   auto_approve, decision, events, hist0, approved, result, raised,
                   shell, children, cycles, label>>

\* ExecLaunch that starts the shell and returns without waiting for it
ExecLaunchNoWait(ok) ==
    /\ run_timeout' = COMMAND_TIMEOUT
    /\ pc = "exec_launch"
    /\ IF ok
       THEN /\ shell' = "running"
            /\ events' = Append(events, "launch")
            /\ pc' = AfterReturn
            /\ UNCHANGED result
       ELSE /\ events' = events \o <<"launch_failed", "return">>
            /\ result' = Result(FALSE, "", "Error occurred while executing command", 0)
            /\ pc' = AfterReturn
            /\ UNCHANGED shell
    /\ UNCHANGED <<entry, completed, policy, upstream, cleared, api_configured,
                   conversation_history, command_history, view, command, needs_approval,
                   auto_approve, decision, hist0, approved, raised, children, cycles,
                   label>>

\* command_executor.py 107-114, 132-135: subprocess.run starts the host shell,
\* or fails to (OSError, ValueError) and the failure is returned
ExecLaunch(ok) ==
    /\ run_timeout' = COMMAND_TIMEOUT
    /\ pc = "exec_launch"
    /\ IF ok
       THEN /\ shell' = "running"
            /\ events' = Append(events, "launch")
            /\ pc' = "exec_run"
            /\ UNCHANGED result
       ELSE /\ events' = events \o <<"launch_failed", "return">>
            /\ result' = Result(FALSE, "", "Error occurred while executing command", 0)
            /\ pc' = AfterReturn
            /\ UNCHANGED shell
    /\ UNCHANGED <<entry, completed, policy, upstream, cleared, api_configured,
                   conversation_history, command_history, view, command, needs_approval,
                   auto_approve, decision, hist0, approved, raised, children, cycles,
                   label>>

\* the running shell forks a process for part of the command line
ShellSpawn ==
    /\ pc = "exec_run"
    /\ shell = "running"
    /\ children < MaxChildren
    /\ children' = children + 1
    /\ UNCHANGED <<entry, completed, policy, run_timeout, upstream, cleared, pc,
                   api_configured, conversation_history, command_history, view, command,
                   needs_approval, auto_approve, decision, events, hist0, approved,
                   result, raised, shell, cycles, label>>

\* a spawned process ends by itself
ChildExit ==
    /\ children > 0
    /\ children' = children - 1
    /\ UNCHANGED <<entry, completed, policy, run_timeout, upstream, cleared, pc,
                   api_configured, conversation_history, command_history, view, command,
                   needs_approval, auto_approve, decision, events, hist0, approved,
                   result, raised, shell, cycles, label>>

ExitCodes == {0, 1}
Outputs == {"", "text"}

\* ExecComplete that hands back the captured stdout only on exit code 0
ExecCompleteOutputOnSuccess(returncode, out, err) ==
    /\ completed' = [returncode |-> returncode, stdout |-> out, stderr |-> err]
    /\ pc = "exec_run"
    /\ shell' = "exited"
    /\ result' = Result(returncode = 0, IF returncode = 0 THEN out ELSE "", err, 0)
    /\ events' = Append(events, "return")
    /\ pc' = AfterReturn
    /\ UNCHANGED <<entry, policy, run_timeout, upstream, cleared, api_configured,
                   conversation_history, command_history, view, command, needs_approval,
                   auto_approve, decision, hist0, approved, raised, children, cycles,
                   label>>

\* command_executor.py 107-126: the shell exits within the timeout
ExecComplete(returncode, out, err) ==
    /\ completed' = [returncode |-> returncode, stdout |-> out, stderr |-> err]
    /\ pc = "exec_run"
    /\ shell' = "exited"
    /\ result' = Result(returncode = 0, out, err, 0)
    /\ events' = Append(events, "return")
    /\ pc' = AfterReturn
    /\ UNCHANGED <<entry, policy, run_timeout, upstream, cleared, api_configured,
                   conversation_history, command_history, view, command, needs_approval,
                   auto_approve, decision, hist0, approved, raised, children, cycles,
                   label>>

\* ExecTimeout whose message names a limit written into the text
ExecTimeoutFixedMessage ==
    /\ pc = "exec_run"
    /\ shell' = "killed"
    /\ result' = Result(FALSE, "", "Command execution timeout", 60)
    /\ events' = events \o <<"timeout", "return">>
    /\ pc' = AfterReturn
    /\ UNCHANGED <<entry, completed, policy, run_timeout, upstream, cleared,
                   api_configured, conversation_history, command_history, view, command,
                   needs_approval, auto_approve, decision, hist0, approved, raised,
                   children, cycles, label>>

\* command_executor.py 107-114, 128-131: subprocess.run's timeout expires; run()
\* kills the process it started (the shell), waits for it and raises TimeoutExpired
ExecTimeout ==
    /\ pc = "exec_run"
    /\ shell' = "killed"
    /\ result' = Result(FALSE, "", "Command execution timeout", COMMAND_TIMEOUT)
    /\ events' = events \o <<"timeout", "return">>
    /\ pc' = AfterReturn
    /\ UNCHANGED <<entry, completed, policy, run_timeout, upstream, cleared,
                   api_configured, conversation_history, command_history, view, command,
                   needs_approval, auto_approve, decision, hist0, approved, raised,
                   children, cycles, label>>

\* ExecError without the catch-all clause: the exception leaves execute_command
\* and main()'s own handler (main.py 208-212) goes on with the loop
ExecErrorUncaught ==
    /\ pc = "exec_run"
    /\ shell' = "killed"
    /\ raised' = "Exception"
    /\ events' = Append(events, "raise")
    /\ pc' = AfterReturn
    /\ UNCHANGED <<entry, completed, policy, run_timeout, upstream, cleared,
                   api_configured, conversation_history, command_history, view, command,
                   needs_approval, auto_approve, decision, hist0, approved, result,
                   children, cycles, label>>

\* command_executor.py 132-135: any other Exception raised inside subprocess.run
\* (e.g. undecodable output); run() kills the shell before re-raising
ExecError ==
    /\ pc = "exec_run"
    /\ shell' = "killed"
    /\ result' = Result(FALSE, "", "Error occurred while executing command", 0)
    /\ events' = Append(events, "return")
    /\ pc' = AfterReturn
    /\ UNCHANGED <<entry, completed, policy, run_timeout, upstream, cleared,
                   api_configured, conversation_history, command_history, view, command,
                   needs_approval, auto_approve, decision, hist0, approved, raised,
                   children, cycles, label>>

\* command_executor.py 104-135: KeyboardInterrupt while subprocess.run waits is a
\* BaseException, not an Exception: no except clause takes it and it leaves
\* execute_command (run() kills the shell first)
ExecInterrupt ==
    /\ pc = "exec_run"
    /\ shell' = "killed"
    /\ raised' = "KeyboardInterrupt"
    /\ events' = Append(events, "raise")
    /\ pc' = AfterRaise
    /\ UNCHANGED <<entry, completed, policy, run_timeout, upstream, cleared,
                   api_configured, conversation_history, command_history, view, command,
                   needs_approval, auto_approve, decision, hist0, approved, result,
                   children, cycles, label>>

(* ------------------------ classifier on its own ------------------------ *)
\* pieces of command text
Tokens ==
    << <<"r", "m">>, <<"R", "m">>, <<" ">>, <<"-", "r", "f">>, <<"*">>, <<">">>,
       <<"/">>, <<"l", "s">>, <<"S", "U", "D", "O">>, <<"e", "c", "h", "o">>,
       <<"C", "h", "M", "o", "d">>, <<"d", "D">> >>

RECURSIVE Flatten(_)
Flatten(ts) == IF Len(ts) = 0 THEN <<>> ELSE Tokens[Head(ts)] \o Flatten(Tail(ts))

ClassifyInputs ==
    {Flatten(ts) : ts \in UNION {[1..n -> 1..Len(Tokens)] : n \in 0..MaxTokens}}

InitClassify ==
    /\ entry = "classify"
    /\ pc = "classify_idle"
    /\ api_configured = FALSE
    /\ command \in ClassifyInputs
    /\ policy = "default"
    /\ InitCommon

\* Classify that also records the command it was asked about
ClassifyRecords ==
    /\ entry = "classify"
    /\ pc = "classify_idle"
    /\ command_history' = <<command>>
    /\ label' = Label(is_sensitive_command(command))
    /\ UNCHANGED <<entry, completed, policy, run_timeout, upstream, cleared, pc,
                   api_configured, conversation_history, view, command, needs_approval,
                   auto_approve, decision, events, hist0, approved, result, raised,
                   shell, children, cycles>>

\* a call of executor.is_sensitive_command(command)
Classify ==
    /\ entry = "classify"
    /\ pc = "classify_idle"
    /\ label' = Label(is_sensitive_command(command))
    /\ UNCHANGED <<entry, completed, policy, run_timeout, upstream, cleared, pc,
                   api_configured, conversation_history, command_history, view, command,
                   needs_approval, auto_approve, decision, events, hist0, approved,
                   result, raised, shell, children, cycles>>

NextClassify == Classify

SpecClassify == InitClassify /\ [][NextClassify]_vars

(* --------------------------- specification ----------------------------- *)
Next ==
    \/ \E user_input \in SpecialInputs : MainSpecial(user_input)
    \/ MainRequest
    \/ \E kind \in ChatOutcomes : \E text \in Replies :
          /\ (kind # "ok" => text = CmdLs)
          /\ MainChat(kind, text)
    \/ MainChatInterrupt
    \/ \E answer \in HintedAnswers : MainConfirm(answer)
    \/ \E cmd \in ApiCommands : \E auto \in BOOLEAN :
          \E d \in {"AUTO_APPROVED", "USER_APPROVED"} :
             /\ (~auto => d = "AUTO_APPROVED")
             /\ ApiCall(cmd, auto, d)
    \/ ExecEnter
    \/ \E answer \in LocalAnswers : ExecConfirm(answer)
    \/ \E exc \in {"KeyboardInterrupt", "EOFError"} : ExecConfirmAbort(exc)
    \/ ExecRecord
    \/ \E ok \in BOOLEAN : ExecLaunch(ok)
    \/ ShellSpawn
    \/ ChildExit
    \/ \E returncode \in ExitCodes : \E out \in Outputs : \E err \in Outputs :
          ExecComplete(returncode, out, err)
    \/ ExecTimeout
    \/ ExecError
    \/ ExecInterrupt

Spec == Init /\ [][Next]_vars

\* the program started with a malformed pattern list in config.py
SpecPolicy == InitPolicy /\ [][Next]_vars

(* ------------------------------ claims --------------------------------- *)
Has(e) == \E i \in 1..Len(events) : events[i] = e
Approvals == {"AUTO_APPROVED", "USER_APPROVED"}
ApprovalEvents == {"decide_AUTO_APPROVED", "decide_USER_APPROVED"}
PromptEvents == {"prompt_hinted", "prompt_local"}
\* no cycle is in progress
CycleOver == pc \in {"input", "api_idle", "done"}

\* C1: every launch of a shell command comes after an approval decision
\* (AUTO_APPROVED or USER_APPROVED) taken in the same cycle; nothing is launched
\* in a cycle whose decision is USER_DENIED or that took no decision.
C1_LaunchOnlyAfterApproval ==
    /\ \A i \in 1..Len(events) :
          events[i] \in {"launch", "launch_failed"} =>
             /\ \E j \in 1..(i - 1) : events[j] \in ApprovalEvents
             /\ decision \in Approvals
             /\ ~Has("decide_USER_DENIED")
    /\ shell # "none" => decision \in Approvals
    /\ pc \in {"exec_record", "exec_launch", "exec_run"} => decision \in Approvals

C1_Witness ==
    /\ entry = "main"
    /\ needs_approval
    /\ decision = "USER_APPROVED"
    /\ Has("launch")

\* C2: a command that comes from the translator without the hint and that the
\* local classifier labels SENSITIVE is launched only after a confirmation
\* prompt was issued and answered yes.
C2_UnhintedSensitiveIsPrompted ==
    (/\ entry = "main"
     /\ ~needs_approval
     /\ is_sensitive_command(command)
     /\ Has("launch"))
    => \E i, j, k \in 1..Len(events) :
          /\ i < j /\ j < k
          /\ events[i] \in PromptEvents
          /\ events[j] = "answer_yes"
          /\ events[k] = "launch"

\* C3: hinted command and the user answers no: the decision is USER_DENIED, the
\* engine is not invoked and the history is what it was before the cycle.
C3_HintedNoIsDenied ==
    (/\ entry = "main"
     /\ needs_approval
     /\ Has("answer_no"))
    => /\ decision = "USER_DENIED"
       /\ ~Has("panel_normal") /\ ~Has("launch") /\ ~Has("launch_failed")
       /\ shell = "none"
       /\ result = NoResult
       /\ command_history = hist0
       /\ CycleOver

C3_Witness ==
    /\ entry = "main"
    /\ needs_approval
    /\ Has("answer_no")
    /\ decision = "USER_DENIED"
    /\ Len(command_history) > 0

\* the command reached its launch without an upstream hint
Unhinted ==
    \/ entry = "main" /\ ~needs_approval
    \/ entry = "api" /\ ~auto_approve

\* C4: a command with no upstream hint that the local classifier labels SAFE is
\* AUTO_APPROVED and no confirmation prompt is issued before its launch.
C4_SafeUnhintedNoPrompt ==
    (/\ Unhinted
     /\ ~is_sensitive_command(command)
     /\ pc \in {"exec_record", "exec_launch", "exec_run"} \/ Has("launch"))
    => /\ decision = "AUTO_APPROVED"
       /\ \A i \in 1..Len(events) : events[i] \notin PromptEvents

C4_Witness ==
    /\ Unhinted
    /\ command = CmdLs
    /\ ~is_sensitive_command(command)
    /\ decision = "AUTO_APPROVED"
    /\ Has("launch")

\* C5: an interrupt or end-of-input at any confirmation prompt has the outcome
\* of answering no: USER_DENIED, nothing launched, history unchanged, and no
\* exception ends the call or the session.
C5_InterruptAtPromptIsDenial ==
    Has("answer_interrupted")
    => /\ decision = "USER_DENIED"
       /\ ~Has("launch") /\ ~Has("launch_failed")
       /\ command_history = hist0
       /\ raised = "none"

\* C6: a denied command is not in the history because of its cycle; an approved
\* command is, whatever the outcome of its execution.
C6_HistoryIsIntentToExecute ==
    (CycleOver /\ cycles > 0)
    => /\ decision = "USER_DENIED" => command_history = hist0
       /\ decision \in Approvals => command_history = Append(hist0, command)

C6_Witness ==
    /\ CycleOver
    /\ decision \in Approvals
    /\ result.stderr = "Command execution timeout"
    /\ ~result.succeeded
    /\ command_history = Append(hist0, command)

\* C7: the history is append-only and ordered: each step leaves it alone or
\* appends the current command, and between cycles it is exactly the approved
\* commands in the order of their approval.
C7_HistoryAppendOnlyOrdered ==
    /\ [][\/ command_history' = command_history
          \/ command_history' = Append(command_history, command)]_vars
    /\ [](CycleOver => command_history = approved)

C7_Witness ==
    /\ CycleOver
    /\ Len(command_history) = 2
    /\ command_history[1] # command_history[2]
    /\ command_history = approved

\* the claim's reading of the policy: lower-case, then keyword or pattern
SensitiveByPolicy(c) ==
    LET l == Lower(c)
    IN  \/ \E keyword \in SENSITIVE_COMMAND_KEYWORDS : \E i \in 1..Len(l) :
              /\ i + Len(keyword) - 1 <= Len(l)
              /\ SubSeq(l, i, i + Len(keyword) - 1) = keyword
        \/ \E n \in 1..Len(DANGEROUS_PATTERNS) : Search(DANGEROUS_PATTERNS[n], l)

\* c contains word in any letter case
ContainsAnyCase(c, word) ==
    \E i \in 1..Len(c) :
       /\ i + Len(word) - 1 <= Len(c)
       /\ \A k \in 1..Len(word) : LowerChar(c[i + k - 1]) = word[k]

NamedKeywords ==
    { <<"r", "m">>, <<"s", "u", "d", "o">>, <<"c", "h", "m", "o", "d">>,
      <<"d", "d">>, <<">">> }

\* C8: the classifier returns SENSITIVE exactly when the lower-cased command
\* contains a configured keyword or matches a configured pattern; commands
\* containing rm, sudo, chmod, dd or > in any letter case are SENSITIVE.
C8_ClassifierMatchesPolicy ==
    label # "none"
    => /\ (label = "SENSITIVE") <=> SensitiveByPolicy(command)
       /\ (\E w \in NamedKeywords : ContainsAnyCase(command, w)) => label = "SENSITIVE"

C8_Witness ==
    /\ entry = "classify"
    /\ label = "SENSITIVE"
    /\ command = <<" ", "R", "m">>

\* C9 as stated: an approved command's execution always ends in a returned
\* result; nothing, an interrupt included, leaves execute_command as an exception.
C9_AlwaysReturnsResult ==
    (CycleOver /\ decision \in Approvals)
    => /\ raised = "none"
       /\ result # NoResult

\* C9 amended: completion, timeout, launch failure and any other Exception end
\* in a returned result; only KeyboardInterrupt during execution leaves
\* execute_command, and then the session loop ends.
C9_ReturnsResultUnlessInterrupted ==
    (CycleOver /\ decision \in Approvals)
    => \/ /\ raised = "none"
          /\ result # NoResult
          /\ Has("return")
       \/ /\ raised = "KeyboardInterrupt"
          /\ result = NoResult
          /\ Has("launch")
          /\ shell = "killed"
          /\ entry = "main" => pc = "done"

C9_Witness ==
    /\ CycleOver
    /\ decision \in Approvals
    /\ raised = "none"
    /\ result.stderr = "Error occurred while executing command"
    /\ Has("launch")

\* C10: after the timeout result is returned no process of that command is
\* still running, neither the host shell nor a process it spawned.
C10_NoProcessSurvivesTimeout ==
    result.stderr = "Command execution timeout"
    => /\ shell # "running"
       /\ children = 0

\* C11 as stated: after the user's clear the command history, as
\* get_command_history and the 'history' input show it, is empty until the next
\* approved execution.
C11_ClearEmptiesCommandHistory ==
    cleared => get_command_history = <<>>

\* C11 amended: clear empties the conversation history only; the command
\* history still holds every approved command, in order.
C11_ClearEmptiesConversationOnly ==
    cleared
    => /\ conversation_history = <<>>
       /\ get_command_history = approved
       /\ get_command_history = hist0 \o (IF decision \in Approvals THEN <<command>> ELSE <<>>)

C11_Witness ==
    /\ cleared
    /\ conversation_history = <<>>
    /\ Len(get_command_history) > 0
    /\ view = get_command_history

\* the text left when one leading marker is taken off
WithoutLeadingMarker(text) == Strip(SubSeq(text, Len(Marker) + 1, Len(text)))

\* C12: when the upstream text starts with the marker the hint is set and the
\* command is that text with the one leading marker removed and trimmed, the
\* rest unchanged; otherwise the hint is unset and the command is the text.
C12_OnlyLeadingMarkerStripped ==
    (entry = "main" /\ upstream.kind = "ok")
    => IF StartsWith(upstream.text, Marker)
       THEN needs_approval /\ command = WithoutLeadingMarker(upstream.text)
       ELSE ~needs_approval /\ command = upstream.text

\* C13: on timeout the returned result has succeeded = false, an empty stdout and
\* a timeout message naming the configured limit, the value that was passed as
\* the timeout of the launch.
C13_TimeoutResult ==
    Has("timeout")
    => /\ result.succeeded = FALSE
       /\ result.stdout = ""
       /\ result.stderr = "Command execution timeout"
       /\ result.limit = run_timeout
       /\ run_timeout = COMMAND_TIMEOUT

C13_Witness ==
    /\ Has("launch")
    /\ Has("timeout")
    /\ shell = "killed"
    /\ result.limit = 30

\* C14: a malformed classification policy is fatal at startup: the session
\* never accepts a first command and nothing is classified, approved or
\* executed under it.
C14_MalformedPolicyIsFatal ==
    policy \in MalformedPolicies
    => /\ cycles = 0
       /\ events = <<>>
       /\ decision = "NONE"
       /\ label = "none"
       /\ shell = "none"

\* C15: the session is strictly sequential: the shell of a command runs only
\* while execute_command waits for it, no prompt is open while a command runs or
\* after it was launched, and input is read only when the cycle has ended.
C15_StrictlySequential ==
    /\ shell = "running" => pc = "exec_run"
    /\ pc \in {"hinted_prompt", "exec_confirm"} => shell = "none" /\ ~Has("launch")
    /\ pc \in {"input", "chat", "api_idle"} => shell # "running"
    /\ (pc \in {"input", "api_idle"} /\ Has("launch")) => Has("return") \/ Has("raise")
    /\ (pc \in {"input", "api_idle"} /\ (Has("prompt_hinted") \/ Has("prompt_local")))
          => \E i \in 1..Len(events) :
                events[i] \in {"answer_yes", "answer_no", "answer_empty", "answer_interrupted"}

C15_Witness ==
    /\ entry = "main"
    /\ pc = "input"
    /\ Has("prompt_hinted")
    /\ Has("launch")
    /\ Has("return")
    /\ shell = "exited"
    /\ Len(command_history) = 2

\* C16: on normal completion succeeded is true exactly when the exit code is 0
\* and stdout and stderr are the captured output, for zero and non-zero codes.
C16_CompletionResult ==
    completed # NoCompleted
    => /\ result.succeeded = (completed.returncode = 0)
       /\ result.stdout = completed.stdout
       /\ result.stderr = completed.stderr
       /\ raised = "none"

C16_Witness ==
    /\ completed # NoCompleted
    /\ completed.returncode = 1
    /\ ~result.succeeded
    /\ result.stdout = "text"
    /\ result.stderr = "text"

\* positions of the events of a kind in the current cycle
At(kinds) == {i \in 1..Len(events) : events[i] \in kinds}
PanelEvents == {"panel_sensitive", "panel_normal"}

\* C17: in hinted mode the local classifier is not run and at most one prompt is
\* issued in the cycle; after a yes the command launches without a second prompt,
\* even when it matches local keywords or patterns.
C17_HintedSinglePrompt ==
    (entry = "main" /\ needs_approval)
    => /\ ~Has("classify")
       /\ Cardinality(At(PromptEvents)) <= 1
       /\ Has("launch") => /\ Cardinality(At(PromptEvents)) = 1
                           /\ Has("answer_yes")
                           /\ decision = "USER_APPROVED"

C17_Witness ==
    /\ entry = "main"
    /\ needs_approval
    /\ is_sensitive_command(command)
    /\ Has("answer_yes")
    /\ Has("launch")

\* C18 as stated: in hinted mode the sensitive panel is shown before the prompt,
\* and in every cycle a command panel is rendered before any prompt.
C18_PanelBeforePrompt ==
    \A i \in At(PromptEvents) :
       /\ \E j \in At(PanelEvents) : j < i
       /\ events[i] = "prompt_hinted" => \E j \in At({"panel_sensitive"}) : j < i

\* C18 amended: the prompt of the local check comes after the sensitive panel;
\* the hinted prompt comes after a warning line and no panel, and the normal
\* panel of a hinted command is rendered only after the yes.
C18_PanelOrder ==
    /\ \A i \in At({"prompt_local"}) : \E j \in At({"panel_sensitive"}) : j < i
    /\ \A i \in At({"prompt_hinted"}) :
          /\ \E j \in At({"warning"}) : j < i
          /\ \A j \in At(PanelEvents) :
                /\ events[j] = "panel_normal"
                /\ \E k \in At({"answer_yes"}) : i < k /\ k < j

C18_Witness ==
    /\ entry = "main"
    /\ needs_approval
    /\ Has("prompt_hinted")
    /\ Has("panel_normal")

\* C19: a call of is_sensitive_command changes nothing but the value it
\* returns: the history is as before, no prompt is issued, no process is
\* launched, and a repeated call returns the label the first call returned.
C19_ClassifyHasNoSideEffect ==
    [][/\ label # "none" => label' = label
       /\ UNCHANGED <<command, command_history, conversation_history, events, decision,
                      approved, result, raised, shell, children, completed, view>>]_vars

C19_Witness ==
    /\ entry = "classify"
    /\ label = "SAFE"
    /\ command = <<"l", "s", " ", "/">>
    /\ command_history = <<>>
    /\ events = <<>>
    /\ shell = "none"

\* the ways the claim lists in which the translator delivers no command
FailureKinds ==
    {"not_configured", "timeout", "connection", "http_error", "json_error", "unrecognised"}

\* C20: when the translation service fails to deliver a command the hint is
\* False, no shell command is launched in that cycle and the history is unchanged.
C20_TranslatorFailureLaunchesNothing ==
    (entry = "main" /\ upstream.kind \in FailureKinds)
    => /\ ~needs_approval
       /\ ~Has("launch") /\ ~Has("launch_failed")
       /\ shell = "none"
       /\ command_history = hist0

\* the reply with the approval marker in front of it, if any, taken off
ReplyBody(text) == IF StartsWith(text, Marker) THEN WithoutLeadingMarker(text) ELSE text

\* the reply is a question answer, the UNKNOWN reply or an error message
IsNonCommandReply(text) ==
    \/ StartsWith(ReplyBody(text), QuestionTag)
    \/ ReplyBody(text) = UnknownText
    \/ StartsWith(ReplyBody(text), ErrorTag)

\* C21: in a cycle whose translator reply is a question answer, the UNKNOWN
\* reply or an error message, with or without the approval marker in front,
\* nothing reaches the executor: no prompt is issued, no decision is taken,
\* nothing is launched and the command history is as it was when the cycle began
C21_NonCommandReplyNeverExecuted ==
    (entry = "main" /\ upstream.kind = "ok" /\ IsNonCommandReply(upstream.text))
    => /\ pc \in {"input", "done"}
       /\ events = <<>>
       /\ decision = "NONE"
       /\ shell = "none"
       /\ children = 0
       /\ result = NoResult
       /\ command_history = hist0

\* a marked question reply came back after a command had already been recorded
C21_Witness ==
    /\ entry = "main"
    /\ upstream.kind = "ok"
    /\ StartsWith(upstream.text, Marker)
    /\ StartsWith(ReplyBody(upstream.text), QuestionTag)
    /\ needs_approval
    /\ pc = "input"
    /\ Len(command_history) > 0
    /\ command_history = hist0

\* the keyword loop of is_sensitive_command alone, on the text the code tests
KeywordTest(text) ==
    \E keyword \in SENSITIVE_COMMAND_KEYWORDS : Contains(Strip(Lower(text)), keyword)

\* the pattern loop of is_sensitive_command alone, on the text the code tests
PatternTest(text) ==
    \E n \in 1..Len(DANGEROUS_PATTERNS) : Search(DANGEROUS_PATTERNS[n], Strip(Lower(text)))

\* C22: under the default policy data every classified command that matches
\* one of the configured dangerous patterns also contains a configured keyword,
\* so the label the classifier gave equals the keyword test alone
C22_PatternTestIsRedundant ==
    (entry = "classify" /\ label # "none")
    => /\ PatternTest(command) => KeywordTest(command)
       /\ (label = "SENSITIVE") <=> KeywordTest(command)

\* a classified command that matches the sudo\s+rm pattern
C22_Witness ==
    /\ entry = "classify"
    /\ label = "SENSITIVE"
    /\ command = <<"S", "U", "D", "O", " ", "r", "m">>
    /\ PatternTest(command)

====
